---------------------------- MODULE Spec2Model ----------------------------
(***************************************************************************)
(* NetworkInfo::analyze_network of src/main.rs as a state machine: one     *)
(* action per let-binding of the function body, in program order.          *)
(*                                                                         *)
(* Representation.  TLC's integers are 32-bit signed, so a Rust u32 is a   *)
(* vector of 32 bits (index 1 = most significant bit), an Ipv4Addr is its  *)
(* four octets <<a, b, c, d>>, and an Option<Ipv4Addr> is either the four  *)
(* octets or None.  Arithmetic that overflows panics when the crate is     *)
(* built with overflow checks (debug profile) and wraps when it is built   *)
(* without them (release profile); the profile is an input of the model.   *)
(***************************************************************************)
EXTENDS Integers, Sequences, FiniteSets

VARIABLES family, ip_address, cidr, overflow_checks, pc, local, wrapped,
          panic_line, result

inputs == <<family, ip_address, cidr, overflow_checks>>
vars == <<family, ip_address, cidr, overflow_checks, pc, local, wrapped,
          panic_line, result>>

----------------------------------------------------------------------------
(* Inputs the model draws from.                                            *)

\* First octets: every class boundary, the three private first octets and
\* their neighbours.
FirstOctets == {0, 1, 10, 127, 128, 172, 191, 192, 223, 224, 239, 240, 255}

\* Second octets: the boundaries of 172.16/12 and of 192.168/16.
SecondOctets == {15, 16, 31, 32, 168}

\* Third and fourth octets, as pairs: a subnet's first and last address, an
\* address inside it, and last octets within 90, within 9 and within 1 of 255.
LowOctets == {<<1, 0>>, <<10, 10>>, <<1, 200>>, <<1, 250>>, <<255, 255>>}

Addresses == {<<a, b>> \o lo : a \in FirstOctets, b \in SecondOctets,
                               lo \in LowOctets}

\* The prefix lengths of the contract: 0..=32.
Cidrs == 0 .. 32

None == <<>>

----------------------------------------------------------------------------
(* u32 as a vector of 32 bits, u8 as a number 0..255.                      *)

Bits == 1 .. 32

Pow2(n) == 2 ^ n

\* Bit k (0 = least significant) of the number v.
BitOf(v, k) == (v \div Pow2(k)) % 2

\* u32::MAX
U32Max == [i \in Bits |-> 1]

\* A u32 literal below 2^31: its top bit is 0.
U32Lit(n) == [i \in Bits |-> IF i = 1 THEN 0 ELSE BitOf(n, 32 - i)]

\* u32::from(Ipv4Addr): the octets in big-endian order.
U32FromIpv4(o) == [i \in Bits |-> BitOf(o[((i - 1) \div 8) + 1], 7 - ((i - 1) % 8))]

\* The value of the 8 bits of x that start at bit index from.
OctetAt(x, from) ==
    x[from] * 128 + x[from + 1] * 64 + x[from + 2] * 32 + x[from + 3] * 16
    + x[from + 4] * 8 + x[from + 5] * 4 + x[from + 6] * 2 + x[from + 7]

\* Ipv4Addr::from(u32)
Ipv4FromU32(x) == <<OctetAt(x, 1), OctetAt(x, 9), OctetAt(x, 17), OctetAt(x, 25)>>

\* !x, x & y, x | y
U32Not(x) == [i \in Bits |-> 1 - x[i]]
U32And(x, y) == [i \in Bits |-> x[i] * y[i]]
U32Or(x, y) == [i \in Bits |-> IF x[i] = 1 \/ y[i] = 1 THEN 1 ELSE 0]

\* x << s for a u32 x: the shift overflows when s >= 32; without overflow
\* checks the shift amount is taken modulo 32.
U32Shl(x, s) ==
    LET k == s % 32
    IN  [val |-> [i \in Bits |-> IF i + k <= 32 THEN x[i + k] ELSE 0],
         ovf |-> s >= 32]

\* a - b, a + b on u8: the result modulo 256 and whether it overflowed.
U8Sub(a, b) == [val |-> (a - b + 256) % 256, ovf |-> a < b]
U8Add(a, b) == [val |-> (a + b) % 256, ovf |-> a + b > 255]

\* u8::saturating_add
U8SaturatingAdd(a, b) == IF a + b > 255 THEN 255 ELSE a + b

\* 2_u32.pow(exp), as exp doublings of 1: a doubling overflows when the top
\* bit is set, and then wraps.  (The library squares instead of doubling; the
\* result, 2^exp modulo 2^32, and the overflow, exp >= 32, are the same.)
RECURSIVE U32PowOfTwo(_)
U32PowOfTwo(exp) ==
    IF exp = 0 THEN [val |-> U32Lit(1), ovf |-> FALSE]
    ELSE LET p == U32PowOfTwo(exp - 1)
         IN  [val |-> U32Shl(p.val, 1).val, ovf |-> p.ovf \/ p.val[1] = 1]

\* The borrow into bit index i (32 = least significant) of a - b.
RECURSIVE BorrowInto(_, _, _)
BorrowInto(a, b, i) ==
    IF i = 32 THEN 0
    ELSE IF a[i + 1] - b[i + 1] - BorrowInto(a, b, i + 1) < 0 THEN 1 ELSE 0

\* a - b on u32: the result modulo 2^32 and whether it underflowed.
U32Sub(a, b) ==
    [val |-> [i \in Bits |-> (a[i] - b[i] - BorrowInto(a, b, i) + 2) % 2],
     ovf |-> a[1] - b[1] - BorrowInto(a, b, 1) < 0]

----------------------------------------------------------------------------
(* The pure parts of analyze_network.                                      *)

\* is_private with the arm (172, 16..=32): the range's end taken inclusive.
IsPrivateInclusiveEnd(o0, o1) ==
    CASE o0 = 10 -> TRUE
      [] o0 = 172 /\ o1 >= 16 /\ o1 <= 32 -> TRUE
      [] o0 = 192 /\ o1 = 168 -> TRUE
      [] OTHER -> FALSE

\* match (octets[0], octets[1]) of is_private; 16..32 excludes 32.
IsPrivate(o0, o1) ==
    CASE o0 = 10 -> TRUE
      [] o0 = 172 /\ o1 >= 16 /\ o1 < 32 -> TRUE
      [] o0 = 192 /\ o1 = 168 -> TRUE
      [] OTHER -> FALSE

\* ip_class with the first arm 0_u8..128_u8: first octet 0 taken as class A.
IpClassFromZero(o0) ==
    IF o0 >= 0 /\ o0 < 128 THEN "A"
    ELSE IF o0 >= 128 /\ o0 < 192 THEN "B"
    ELSE IF o0 >= 192 /\ o0 < 224 THEN "C"
    ELSE IF o0 >= 224 /\ o0 < 240 THEN "D"
    ELSE "E"

\* match octets[0] of ip_class: the first arm that matches, ranges half-open.
IpClass(o0) ==
    IF o0 >= 1 /\ o0 < 128 THEN "A"
    ELSE IF o0 >= 128 /\ o0 < 192 THEN "B"
    ELSE IF o0 >= 192 /\ o0 < 224 THEN "C"
    ELSE IF o0 >= 224 /\ o0 < 240 THEN "D"
    ELSE "E"

\* u32::MAX << (32 - cidr), with cidr a u8.
MaskShift(c) ==
    LET amount == U8Sub(32, c)
        shifted == U32Shl(U32Max, amount.val)
    IN  [val |-> shifted.val, ovf |-> amount.ovf \/ shifted.ovf]

\* The outer match of the optional fields: 31 | 32 => None.
NoHostRange(c) == c = 31 \/ c = 32

\* The inner match of the optional fields: 'D' | 'E' => None.
NoHostClass(cls) == cls = "D" \/ cls = "E"

\* The octets with the last one replaced.
WithLastOctet(o, v) == <<o[1], o[2], o[3], v>>

----------------------------------------------------------------------------
(* State.                                                                  *)

NoLocals ==
    [octets |-> None, is_private |-> FALSE, ip_class |-> "?",
     subnet_mask |-> None, broadcast_address |-> None,
     network_address |-> None, host_range_start |-> None,
     host_range_end |-> None, usable_hosts |-> U32Lit(0),
     dhcp_range_start |-> None, dhcp_range_end |-> None,
     default_gateway |-> None]

Init ==
    /\ \/ family = "V4" /\ ip_address \in Addresses /\ cidr \in Cidrs
       \/ family = "V6" /\ ip_address = None /\ cidr \in {0, 24, 32}
    /\ overflow_checks \in BOOLEAN
    /\ pc = "destructure"
    /\ local = NoLocals
    /\ wrapped = {}
    /\ panic_line = 0
    /\ result = None

\* The function unwinds at the source line given.
Panic(line) ==
    /\ pc' = "panicked"
    /\ panic_line' = line
    /\ UNCHANGED <<inputs, local, wrapped, result>>

\* The binding of one field, after arithmetic that overflowed or not at the
\* source line given: a panic with overflow checks, a wrapped value without.
Bind(ovf, line, field, value, next) ==
    IF ovf /\ overflow_checks
    THEN Panic(line)
    ELSE /\ local' = [local EXCEPT ![field] = value]
         /\ wrapped' = IF ovf THEN wrapped \cup {line} ELSE wrapped
         /\ pc' = next
         /\ UNCHANGED <<inputs, panic_line, result>>


----------------------------------------------------------------------------
(* analyze_network, one let-binding per action.                            *)

\* let ipv4_addr = if let IpAddr::V4(ipv4) = ip_address { .. } else { panic! }
Destructure ==
    /\ pc = "destructure"
    /\ IF family = "V4"
       THEN /\ local' = [local EXCEPT !.octets = ip_address]
            /\ pc' = "is_private"
            /\ UNCHANGED <<inputs, wrapped, panic_line, result>>
       ELSE Panic(28)

\* let is_private = match (octets[0], octets[1]) { .. }
BindIsPrivate ==
    /\ pc = "is_private"
    /\ Bind(FALSE, 32, "is_private",
            IsPrivate(local.octets[1], local.octets[2]), "ip_class")

\* let ip_class = match octets[0] { .. }
BindIpClass ==
    /\ pc = "ip_class"
    /\ Bind(FALSE, 39, "ip_class", IpClass(local.octets[1]), "subnet_mask")

\* let subnet_mask = Ipv4Addr::from(u32::MAX << (32 - cidr));
BindSubnetMask ==
    /\ pc = "subnet_mask"
    /\ LET mask == MaskShift(cidr)
       IN  Bind(mask.ovf, 47, "subnet_mask", Ipv4FromU32(mask.val),
                "broadcast_address")

\* let broadcast_address = match ip_class { 'D' | 'E' => None, _ => Some(ip | !mask) }
BindBroadcastAddress ==
    /\ pc = "broadcast_address"
    /\ IF NoHostClass(local.ip_class)
       THEN Bind(FALSE, 50, "broadcast_address", None, "network_address")
       ELSE LET mask == MaskShift(cidr)
                broadcast_as_u32 ==
                    U32Or(U32FromIpv4(local.octets), U32Not(mask.val))
            IN  Bind(mask.ovf, 52, "broadcast_address",
                     Ipv4FromU32(broadcast_as_u32), "network_address")

\* let network_address = Ipv4Addr::from(ip_as_u32 & mask)
BindNetworkAddress ==
    /\ pc = "network_address"
    /\ LET mask == MaskShift(cidr)
           network_as_u32 == U32And(U32FromIpv4(local.octets), mask.val)
       IN  Bind(mask.ovf, 59, "network_address", Ipv4FromU32(network_as_u32),
                "host_range_start")

\* let host_range_start = match cidr { 31 | 32 => None, _ => match ip_class { .. } }
BindHostRangeStart ==
    /\ pc = "host_range_start"
    /\ IF NoHostRange(cidr) \/ NoHostClass(local.ip_class)
       THEN Bind(FALSE, 65, "host_range_start", None, "host_range_end")
       ELSE LET octets == local.network_address
                last == U8Add(octets[4], IF cidr < 32 THEN 1 ELSE 0)
            IN  Bind(last.ovf, 70, "host_range_start",
                     WithLastOctet(octets, last.val), "host_range_end")

\* let host_range_end = .. broadcast_address.unwrap().octets(); octets[3] -= 1
BindHostRangeEnd ==
    /\ pc = "host_range_end"
    /\ IF NoHostRange(cidr) \/ NoHostClass(local.ip_class)
       THEN Bind(FALSE, 77, "host_range_end", None, "usable_hosts")
       ELSE IF local.broadcast_address = None
       THEN Panic(81)
       ELSE LET octets == local.broadcast_address
                last == U8Sub(octets[4], IF cidr < 32 THEN 1 ELSE 0)
            IN  Bind(last.ovf, 82, "host_range_end",
                     WithLastOctet(octets, last.val), "usable_hosts")

\* let usable_hosts = match ip_class { 'E' | 'D' => 0,
\*     _ => if cidr > 30 { 0 } else { 2_u32.pow(32_u32 - u32::from(cidr)) - 2 } }
BindUsableHosts ==
    /\ pc = "usable_hosts"
    /\ IF NoHostClass(local.ip_class) \/ cidr > 30
       THEN Bind(FALSE, 89, "usable_hosts", U32Lit(0), "dhcp_range_start")
       ELSE LET power == U32PowOfTwo(32 - cidr)
                hosts == U32Sub(power.val, U32Lit(2))
            IN  Bind(power.ovf \/ hosts.ovf, 90, "usable_hosts", hosts.val,
                     "dhcp_range_start")

\* let dhcp_range_start = .. host_range_start.unwrap().octets();
\*     if cidr < 25 { octets[3] += 9 }
BindDhcpRangeStart ==
    /\ pc = "dhcp_range_start"
    /\ IF NoHostRange(cidr) \/ NoHostClass(local.ip_class)
       THEN Bind(FALSE, 94, "dhcp_range_start", None, "dhcp_range_end")
       ELSE IF local.host_range_start = None
       THEN Panic(98)
       ELSE LET octets == local.host_range_start
                last == IF cidr < 25 THEN U8Add(octets[4], 9)
                        ELSE [val |-> octets[4], ovf |-> FALSE]
            IN  Bind(last.ovf, 99, "dhcp_range_start",
                     WithLastOctet(octets, last.val), "dhcp_range_end")

\* let dhcp_range_end = .. octets[3] = octets[3].saturating_add(90)
BindDhcpRangeEnd ==
    /\ pc = "dhcp_range_end"
    /\ IF NoHostRange(cidr) \/ NoHostClass(local.ip_class)
       THEN Bind(FALSE, 106, "dhcp_range_end", None, "default_gateway")
       ELSE IF local.dhcp_range_start = None
       THEN Panic(110)
       ELSE LET octets == local.dhcp_range_start
            IN  Bind(FALSE, 111, "dhcp_range_end",
                     WithLastOctet(octets, U8SaturatingAdd(octets[4], 90)),
                     "default_gateway")

\* let default_gateway = .. Some(host_range_start.unwrap())
BindDefaultGateway ==
    /\ pc = "default_gateway"
    /\ IF NoHostRange(cidr) \/ NoHostClass(local.ip_class)
       THEN Bind(FALSE, 118, "default_gateway", None, "return")
       ELSE IF local.host_range_start = None
       THEN Panic(121)
       ELSE Bind(FALSE, 121, "default_gateway", local.host_range_start,
                 "return")

\* let needs_nat = is_private; NetworkInfo { .. }
Return ==
    /\ pc = "return"
    /\ result' = [ip_address |-> ip_address,
                  cidr |-> cidr,
                  subnet_mask |-> local.subnet_mask,
                  ip_class |-> local.ip_class,
                  is_private |-> local.is_private,
                  network_address |-> local.network_address,
                  broadcast_address |-> local.broadcast_address,
                  host_range_start |-> local.host_range_start,
                  host_range_end |-> local.host_range_end,
                  usable_hosts |-> local.usable_hosts,
                  dhcp_range_start |-> local.dhcp_range_start,
                  dhcp_range_end |-> local.dhcp_range_end,
                  default_gateway |-> local.default_gateway,
                  needs_nat |-> local.is_private]
    /\ pc' = "done"
    /\ UNCHANGED <<inputs, local, wrapped, panic_line>>

Next ==
    \/ Destructure
    \/ BindIsPrivate
    \/ BindIpClass
    \/ BindSubnetMask
    \/ BindBroadcastAddress
    \/ BindNetworkAddress
    \/ BindHostRangeStart
    \/ BindHostRangeEnd
    \/ BindUsableHosts
    \/ BindDhcpRangeStart
    \/ BindDhcpRangeEnd
    \/ BindDefaultGateway
    \/ Return

Spec == Init /\ [][Next]_vars

----------------------------------------------------------------------------
(* The vocabulary of the properties.  A 32-bit number is written as the    *)
(* pair <<high 16 bits, low 16 bits>>, each half a TLC integer.            *)

Returned == pc = "done"

\* An address, and a u32, as a 32-bit number.
Num(o) == <<o[1] * 256 + o[2], o[3] * 256 + o[4]>>
NumOfU32(x) == <<OctetAt(x, 1) * 256 + OctetAt(x, 9),
                 OctetAt(x, 17) * 256 + OctetAt(x, 25)>>

\* n + k and n - k for 0 <= k <= 65535, and a - b, without wrapping.
NumPlus(n, k) == <<n[1] + ((n[2] + k) \div 65536), (n[2] + k) % 65536>>
NumMinus(n, k) == IF n[2] >= k THEN <<n[1], n[2] - k>>
                  ELSE <<n[1] - 1, n[2] - k + 65536>>
NumDiff(a, b) == IF a[2] >= b[2] THEN <<a[1] - b[1], a[2] - b[2]>>
                 ELSE <<a[1] - b[1] - 1, a[2] - b[2] + 65536>>
NumLess(a, b) == a[1] < b[1] \/ (a[1] = b[1] /\ a[2] < b[2])
NumLeq(a, b) == a = b \/ NumLess(a, b)

\* The number of host bits (0..8) of octet j (1..4) under prefix length p.
HostBits(p, j) == IF 8 * j - p < 0 THEN 0 ELSE IF 8 * j - p > 8 THEN 8 ELSE 8 * j - p

\* The mask whose top p bits are 1, the address with its host bits cleared,
\* and the address with its host bits set, octet by octet.
PrefixMask(p) == [j \in 1 .. 4 |-> 256 - Pow2(HostBits(p, j))]
MaskedAddress(o, p) == [j \in 1 .. 4 |-> o[j] - (o[j] % Pow2(HostBits(p, j)))]
FilledAddress(o, p) ==
    [j \in 1 .. 4 |-> o[j] - (o[j] % Pow2(HostBits(p, j))) + Pow2(HostBits(p, j)) - 1]

\* 2^k - 2 for 1 <= k <= 32.
TwoToThe_Minus2(k) == IF k <= 16 THEN <<0, Pow2(k) - 2>>
                      ELSE <<Pow2(k - 16) - 1, 65534>>

\* The class table of the design, by first octet.
ClassOfFirstOctet(o) ==
    CASE o \in 1 .. 127 -> "A"
      [] o \in 128 .. 191 -> "B"
      [] o \in 192 .. 223 -> "C"
      [] o \in 224 .. 239 -> "D"
      [] o \in 240 .. 255 -> "E"
      [] o = 0 -> "E"

ClassABC(cls) == cls \in {"A", "B", "C"}

----------------------------------------------------------------------------
(* The properties.                                                         *)

\* C1: analyze_network is total on IPv4 input: for every IPv4 address and
\* every prefix length 0..32 it returns a record and never panics (on a
\* shift by the width, an arithmetic overflow or an unwrap of None).
C1_TotalOnIpv4 == family = "V4" => pc # "panicked"

\* C1, from prefix length 1 on: no IPv4 input with cidr in 1..32 panics.
C1_TotalFromPrefix1 == (family = "V4" /\ cidr >= 1) => pc # "panicked"

\* C2: the subnet_mask of a returned record is the 32-bit value whose top
\* cidr bits are 1 and whose other bits are 0 (0.0.0.0 for cidr = 0,
\* 255.255.255.255 for cidr = 32).
C2_SubnetMask == Returned => result.subnet_mask = PrefixMask(result.cidr)

\* C2, from prefix length 1 on.
C2_SubnetMaskFromPrefix1 ==
    (Returned /\ cidr >= 1) => result.subnet_mask = PrefixMask(result.cidr)

\* C3: in a returned record network_address = address AND mask, and
\* broadcast_address = address OR (NOT mask) for classes A, B, C (for /31 and
\* /32 too) and is absent for classes D and E.
C3_Body ==
    /\ result.network_address = MaskedAddress(ip_address, cidr)
    /\ ClassABC(result.ip_class)
         => result.broadcast_address = FilledAddress(ip_address, cidr)
    /\ ~ClassABC(result.ip_class) => result.broadcast_address = None

C3_NetworkAndBroadcast == Returned => C3_Body

\* C3, from prefix length 1 on.
C3_NetworkAndBroadcastFromPrefix1 == (Returned /\ cidr >= 1) => C3_Body

\* C4: host_range_start and host_range_end are present exactly for classes
\* A, B, C with a prefix length other than 31 and 32, and then are
\* network_address + 1 and broadcast_address - 1 as 32-bit numbers.
C4_Body ==
    LET present == ClassABC(result.ip_class) /\ cidr \notin {31, 32}
    IN  /\ (result.host_range_start # None) <=> present
        /\ (result.host_range_end # None) <=> present
        /\ present =>
             /\ Num(result.host_range_start)
                  = NumPlus(Num(result.network_address), 1)
             /\ Num(result.host_range_end)
                  = NumMinus(Num(result.broadcast_address), 1)

C4_HostRange == Returned => C4_Body

\* C4, from prefix length 1 on.
C4_HostRangeFromPrefix1 == (Returned /\ cidr >= 1) => C4_Body

\* The usable host count of the design for a class and a prefix length.
ExpectedUsableHosts(cls, p) ==
    IF p \in {31, 32} \/ ~ClassABC(cls) THEN <<0, 0>>
    ELSE TwoToThe_Minus2(32 - p)

\* C5: usable_hosts is 0 for prefix lengths 31 and 32 and for classes D and
\* E, and 2^(32 - cidr) - 2 otherwise, computed without an unsigned
\* wraparound in the computation of line 90.
C5_UsableHosts ==
    Returned =>
        /\ NumOfU32(result.usable_hosts)
             = ExpectedUsableHosts(result.ip_class, cidr)
        /\ 90 \notin wrapped

\* C5, the value alone: it is the one of the design for every returned record.
C5_UsableHostsValue ==
    Returned => NumOfU32(result.usable_hosts)
                  = ExpectedUsableHosts(result.ip_class, cidr)

\* C5, from prefix length 1 on: line 90 never wraps.
C5_NoWrapFromPrefix1 == cidr >= 1 => 90 \notin wrapped

\* C6: the DHCP range is absent exactly when host_range_start is; otherwise
\* dhcp_range_start is host_range_start + 9 below /25 and host_range_start
\* for /25../30, and dhcp_range_end is dhcp_range_start with 90 added to its
\* last octet, saturating at 255.
C6_Body ==
    /\ (result.dhcp_range_start = None) <=> (result.host_range_start = None)
    /\ (result.dhcp_range_end = None) <=> (result.host_range_start = None)
    /\ result.host_range_start # None =>
         /\ cidr < 25 => Num(result.dhcp_range_start)
                           = NumPlus(Num(result.host_range_start), 9)
         /\ cidr >= 25 => result.dhcp_range_start = result.host_range_start
         /\ result.dhcp_range_end
              = [result.dhcp_range_start EXCEPT
                   ![4] = IF @ + 90 > 255 THEN 255 ELSE @ + 90]

C6_DhcpRange == Returned => C6_Body

\* C6, from prefix length 1 on.
C6_DhcpRangeFromPrefix1 == (Returned /\ cidr >= 1) => C6_Body

\* C7: ip_class is the class the design's table gives the first octet
\* (1..127 A, 128..191 B, 192..223 C, 224..239 D, 240..255 E, 0 E), whatever
\* the prefix length: in the binding as soon as it is made, and in the
\* returned record.
C7_IpClass ==
    /\ (family = "V4" /\ pc \notin {"destructure", "is_private", "ip_class"})
         => local.ip_class = ClassOfFirstOctet(ip_address[1])
    /\ Returned => result.ip_class = ClassOfFirstOctet(ip_address[1])

\* C7's case: a record returned for an address whose first octet is 0, of
\* class E, under a prefix length that is not 0.
C7_Witness ==
    /\ Returned
    /\ ip_address[1] = 0
    /\ cidr = 8
    /\ result.ip_class = "E"

\* The private ranges of the design.
InPrivateRange(o) ==
    \/ o[1] = 10
    \/ o[1] = 172 /\ o[2] \in 16 .. 31
    \/ o[1] = 192 /\ o[2] = 168

\* C8: is_private holds exactly for first octet 10, for 172.16..172.31 and
\* for 192.168; no class D or E address is private.
C8_IsPrivate ==
    /\ (family = "V4" /\ pc \notin {"destructure", "is_private"})
         => (local.is_private <=> InPrivateRange(ip_address))
    /\ Returned =>
         /\ result.is_private <=> InPrivateRange(ip_address)
         /\ result.ip_class \in {"D", "E"} => ~result.is_private

\* C8's case: records returned for 172.31.x.x (private) exist.
C8_Witness ==
    /\ Returned
    /\ ip_address[1] = 172
    /\ ip_address[2] = 31
    /\ result.is_private
    /\ result.needs_nat

\* C9: in a returned record, when both ends of the host range are present,
\* host_range_start < host_range_end and usable_hosts = host_range_end -
\* host_range_start + 1; when they are absent, usable_hosts = 0.
C9_Body ==
    /\ (result.host_range_start # None /\ result.host_range_end # None) =>
         /\ NumLess(Num(result.host_range_start), Num(result.host_range_end))
         /\ NumOfU32(result.usable_hosts)
              = NumPlus(NumDiff(Num(result.host_range_end),
                                Num(result.host_range_start)), 1)
    /\ (result.host_range_start = None /\ result.host_range_end = None) =>
         NumOfU32(result.usable_hosts) = <<0, 0>>

C9_RecordInvariant == Returned => C9_Body

\* C9, from prefix length 1 on.
C9_RecordInvariantFromPrefix1 == (Returned /\ cidr >= 1) => C9_Body

\* C10: a DHCP range that is present lies inside the host range:
\* host_range_start <= dhcp_range_start <= dhcp_range_end <= host_range_end.
C10_Body ==
    result.dhcp_range_start # None =>
        /\ NumLeq(Num(result.host_range_start), Num(result.dhcp_range_start))
        /\ NumLeq(Num(result.dhcp_range_start), Num(result.dhcp_range_end))
        /\ NumLeq(Num(result.dhcp_range_end), Num(result.host_range_end))

C10_DhcpInsideHostRangePrefix1To25 ==
    (Returned /\ cidr \in 1 .. 25) => C10_Body

============================================================================
